---- MODULE Spec2Model ----
(***************************************************************************)
(* Model of cmd/ipfs/daemon.go: daemonFunc (bootstrap and supervision of   *)
(* the API and gateway services) and merge (fan-in of error channels).     *)
(*                                                                         *)
(* A behaviour starts either at the entry of daemonFunc, or at the call of *)
(* merge in daemonFunc (line 231) with arbitrary input signals in place of *)
(* apiErrc and gwErrc.                                                     *)
(***************************************************************************)
EXTENDS Integers, Sequences, FiniteSets, TLC

\* ---------------------------------------------------------------- bounds
\* largest number of input signals handed to merge when merge is entered
\* directly
MaxSignals == 2
\* largest number of values all these input signals emit together
MaxEmit == 1
\* largest number of addresses in the configured supernode server list
MaxPeers == 2
\* largest length of a request path handed to the API access decider
MaxPathLen == 3

\* ------------------------------------------------------- program constants
\* indices of the two services in the argument list merge(apiErrc, gwErrc)
API == 1
GW == 2
\* const routingOptionSupernodeKwd
routingOptionSupernodeKwd == "supernode"

VARIABLES
    entry,        \* "daemonFunc" or "merge": where the behaviour started
    pc,           \* position of the supervising routine in daemonFunc
    flagInit,     \* --init
    flagMount,    \* --mount
    routingOption,\* --routing
    cfgGateway,   \* len(cfg.Addresses.Gateway) > 0
    repoExists,   \* util.FileExists(ConfigRoot)
    repoConf,     \* what is stored at ConfigRoot: one of RepoStates
    initCalls,    \* calls of initWithDefaults
    lockOwner,    \* who holds the repository lock: "free", "other", "bootstrap", "node"
    opens,        \* successful fsrepo.Open calls
    releases,     \* releases of the repository handle (repo.Close or node teardown)
    repoCloses,   \* explicit repo.Close() calls of daemonFunc
    buildAttempts,\* calls of nb.Build
    nodeBuilt,    \* nb.Build succeeded (the deferred node.Close is registered)
    nodeCloses,   \* calls of node.Close
    lastErr,      \* the non-nil err that made daemonFunc return
    resErr,       \* the error stored in res by res.SetError
    setErrors,    \* calls of res.SetError
    bound,        \* bound[i]: listener of service i was bound
    serve,        \* serve[i]: state of the goroutine writing to errc[i]
    mountAttempts,\* calls of mountFuse
    mounted,      \* commands.Mount succeeded
    errc,         \* errc[i]: "nil" or "chan" (apiErrc, gwErrc / the inputs of merge)
    sendq,        \* sendq[i]: values the writer of errc[i] still has to send
    willClose,    \* willClose[i]: the writer of errc[i] closes it after its last send
    closed,       \* closed[i]: errc[i] has been closed
    args,         \* the input signals as handed to merge when entered directly
    merged,       \* merge has been called
    wg,           \* counter of merge's sync.WaitGroup
    fwd,          \* fwd[i]: state of the output goroutine of cs[i]
    held,         \* held[i]: the value n the output goroutine of cs[i] holds
    closer,       \* state of the goroutine that waits and closes out
    outClosed,    \* out has been closed
    outCloses,    \* calls of close(out)
    recvLog,      \* values received by the supervising loop, in order
    ctxDone,      \* ctx.Context.Done() is closed
    listener,     \* state of the goroutine of lines 105-110
    shutdownLog,  \* "Gracefully shut down daemon" was logged
    servers,      \* cfg.SupernodeRouting.Servers as read at line 159
    routing,      \* the routing option set on the node builder
    listens,      \* listens[i]: successful manet.Listen calls of service i
    starts,       \* starts[i]: serving goroutines started for service i
    unrestricted, \* --unrestricted-api
    apiWritable,  \* Writable of the API's GatewayConfig: "unset", "writable"
    reqPath,      \* the last request path handed to the API's Decider
    decision,     \* what the Decider returned for it: "none", "allowed", "denied"
    writableFound,\* --writable was given
    writableFlag, \* the value of --writable (false when not given)
    cfgWritable,  \* cfg.Gateway.Writable
    gwWritable    \* writable of the gateway: "unset", "writable", "readonly"

repoVars == <<repoExists, repoConf, initCalls, lockOwner, opens, releases, repoCloses>>
nodeVars == <<buildAttempts, nodeBuilt, nodeCloses>>
resVars == <<lastErr, resErr, setErrors>>
svcVars == <<bound, serve, mountAttempts, mounted>>
chanVars == <<errc, sendq, willClose, closed>>
mergeVars == <<merged, wg, fwd, held, closer, outClosed, outCloses>>
inputVars == <<entry, flagInit, flagMount, routingOption, cfgGateway, args>>
ctxVars == <<ctxDone, listener, shutdownLog>>
routeVars == <<servers, routing>>
\* the variables only few steps change
launchVars == <<listens, starts>>
policyVars == <<unrestricted, apiWritable, reqPath, decision, writableFound,
                writableFlag, cfgWritable, gwWritable>>
extVars == <<routeVars, launchVars, policyVars>>

vars == <<pc, repoVars, nodeVars, resVars, svcVars, chanVars, mergeVars,
          inputVars, ctxVars, recvLog, extVars>>

\* ------------------------------------------------------------ error values
\* a Go error value: kind "nil" is the nil error
Err(kind, src) == [kind |-> kind, src |-> src]
NoErr == Err("nil", 0)
\* the error corehttp.Serve of service / signal i returns
ServeErr(i) == Err("serve", i)

\* --------------------------------------------------------------- helpers
\* the sequences over S of length at most n
SeqUpTo(S, n) == UNION {[1..m -> S] : m \in 0..n}

\* res.SetError(err, cmds.ErrNormal)
SetError(e) ==
    /\ resErr' = e
    /\ setErrors' = setErrors + 1

\* return without the deferred function
Return_NoDefer == pc' = "done"

\* return from daemonFunc: the deferred function of lines 182-192 runs first
\* when it has been registered, i.e. when the node was built
Return == pc' = IF nodeBuilt THEN "defer" ELSE "done"

\* if err != nil { res.SetError(err, cmds.ErrNormal); return }
Fail(e) ==
    /\ lastErr' = e
    /\ SetError(e)
    /\ Return

\* the argument list cs of merge(apiErrc, gwErrc)
cs == errc
Signals == DOMAIN errc

\* ------------------------------------------------------ routing backend
\* an address of the supernode server list: a peer identity and a transport
\* address, or a string that does not parse
ServerAddrs ==
    {[id |-> "P", transport |-> "/ip4/127.0.0.1/tcp/4001", malformed |-> FALSE],
     [id |-> "Q", transport |-> "/ip4/127.0.0.1/tcp/4002", malformed |-> FALSE],
     [id |-> "", transport |-> "", malformed |-> TRUE]}

HasMalformed(list) == \E k \in DOMAIN list : list[k].malformed

\* SupernodeRouting.ServerIPFSAddrs(): the parsed addresses, or an error when
\* one of them is malformed
ServerIPFSAddrs(list) ==
    IF HasMalformed(list)
    THEN [err |-> TRUE, addrs |-> <<>>]
    ELSE [err |-> FALSE, addrs |-> list]

\* the loop with every PeerInfo carrying the transport of the first address
PeerInfos_FirstTransport(addrs) ==
    [k \in DOMAIN addrs |->
        [ID |-> addrs[k].id, Addrs |-> <<addrs[1].transport>>]]

\* lines 165-171: one PeerInfo per address, in order
PeerInfos(addrs) ==
    [k \in DOMAIN addrs |->
        [ID |-> addrs[k].id, Addrs |-> <<addrs[k].transport>>]]

\* no nb.SetRouting call: the builder chooses the standard routing
DefaultRouting == [kind |-> "Default", peers |-> <<>>]

\* line 172: nb.SetRouting(corerouting.SupernodeClient(infos...))
SupernodeClient(infos) == [kind |-> "FixedPeerSet", peers |-> infos]

\* what ConfigRoot can hold: nothing, the repository initWithDefaults
\* writes, or a repository whose config the user has changed since
RepoStates == {"none", "defaults", "user"}

\* ------------------------------------------------------------------ Init
NoService == [i \in {API, GW} |-> FALSE]

CommonInit ==
    /\ initCalls = 0
    /\ releases = 0
    /\ repoCloses = 0
    /\ nodeCloses = 0
    /\ lastErr = NoErr
    /\ resErr = NoErr
    /\ setErrors = 0
    /\ mountAttempts = 0
    /\ mounted = FALSE
    /\ merged = FALSE
    /\ wg = 0
    /\ closer = "none"
    /\ outClosed = FALSE
    /\ outCloses = 0
    /\ recvLog = <<>>
    /\ ctxDone = FALSE
    /\ shutdownLog = FALSE
    /\ servers = <<>>
    /\ routing = DefaultRouting
    /\ apiWritable = "unset"
    /\ reqPath = <<>>
    /\ decision = "none"
    /\ gwWritable = "unset"

\* daemonFunc is invoked with some flags, configuration and repository state
DaemonInit ==
    /\ CommonInit
    /\ entry = "daemonFunc"
    /\ pc = "start"
    /\ unrestricted = FALSE
    /\ writableFound = FALSE
    /\ writableFlag = FALSE
    /\ cfgWritable = FALSE
    /\ flagInit \in BOOLEAN
    /\ flagMount \in BOOLEAN
    /\ routingOption \in {"", routingOptionSupernodeKwd, "bogus"}
    /\ cfgGateway \in BOOLEAN
    /\ repoConf \in RepoStates
    /\ repoExists = (repoConf # "none")
    /\ lockOwner \in {"free", "other"}
    /\ opens = 0
    /\ buildAttempts = 0
    /\ nodeBuilt = FALSE
    /\ bound = NoService
    /\ serve = [i \in {API, GW} |-> "idle"]
    /\ listens = [i \in {API, GW} |-> 0]
    /\ starts = [i \in {API, GW} |-> 0]
    /\ errc = [i \in {API, GW} |-> "nil"]
    /\ sendq = [i \in {API, GW} |-> <<>>]
    /\ willClose = NoService
    /\ closed = NoService
    /\ args = <<>>
    /\ fwd = [i \in {API, GW} |-> "none"]
    /\ held = [i \in {API, GW} |-> NoErr]
    /\ listener = "none"

\* an input signal of merge: nil, or a channel whose writer emits the values
\* of emits (TRUE: a non-nil error, FALSE: nil) and then closes it or not
InputSignals ==
    [isNil : {TRUE}, emits : {<<>>}, closes : {FALSE}]
    \cup [isNil : {FALSE}, emits : SeqUpTo(BOOLEAN, MaxEmit), closes : BOOLEAN]

\* the number of values the input signals a emit together
RECURSIVE Emitted(_)
Emitted(a) == IF a = <<>> THEN 0 ELSE Len(Head(a).emits) + Emitted(Tail(a))

\* daemonFunc stands at line 231 (node built, bootstrap done) and calls merge
\* on arbitrary input signals
MergeInit ==
    /\ CommonInit
    /\ entry = "merge"
    /\ pc = "merge"
    /\ unrestricted = FALSE
    /\ writableFound = FALSE
    /\ writableFlag = FALSE
    /\ cfgWritable = FALSE
    /\ flagInit = FALSE
    /\ flagMount = FALSE
    /\ routingOption = ""
    /\ cfgGateway = FALSE
    /\ repoConf = "defaults"
    /\ repoExists = TRUE
    /\ lockOwner = "node"
    /\ opens = 1
    /\ buildAttempts = 1
    /\ nodeBuilt = TRUE
    /\ args \in {a \in SeqUpTo(InputSignals, MaxSignals) : Emitted(a) <= MaxEmit}
    /\ bound = [i \in DOMAIN args |-> FALSE]
    /\ serve = [i \in DOMAIN args |-> "input"]
    /\ listens = [i \in DOMAIN args |-> 0]
    /\ starts = [i \in DOMAIN args |-> 0]
    /\ errc = [i \in DOMAIN args |-> IF args[i].isNil THEN "nil" ELSE "chan"]
    /\ sendq = [i \in DOMAIN args |->
                  [j \in DOMAIN args[i].emits |->
                      IF args[i].emits[j] THEN ServeErr(i) ELSE NoErr]]
    /\ willClose = [i \in DOMAIN args |-> args[i].closes]
    /\ closed = [i \in DOMAIN args |-> FALSE]
    /\ fwd = [i \in DOMAIN args |-> "none"]
    /\ held = [i \in DOMAIN args |-> NoErr]
    /\ listener = "waiting"

Init == DaemonInit \/ MergeInit

\* ------------------------------------------------- daemonFunc: bootstrap
\* lines 99-118: start the goroutine that logs the interrupt, read --init
Start ==
    /\ pc = "start"
    /\ listener' = "waiting"
    /\ \E ok \in BOOLEAN :
          IF ok
          THEN pc' = "init" /\ UNCHANGED resVars
          ELSE Fail(Err("option", 0))
    /\ UNCHANGED <<repoVars, nodeVars, svcVars, chanVars, mergeVars, inputVars, extVars,
                   ctxDone, shutdownLog, recvLog>>

\* InitIfAbsent without the FileExists test of line 125
InitIfAbsent_Always ==
    /\ pc = "init"
    /\ IF flagInit
       THEN \E ok \in BOOLEAN :
               /\ initCalls' = initCalls + 1
               /\ IF ok
                  THEN /\ repoExists' = TRUE
                       /\ repoConf' = "defaults"
                       /\ pc' = "open"
                       /\ UNCHANGED resVars
                  ELSE UNCHANGED <<repoExists, repoConf>> /\ Fail(Err("init", 0))
       ELSE pc' = "open" /\ UNCHANGED <<repoExists, repoConf, initCalls, resVars>>
    /\ UNCHANGED <<lockOwner, opens, releases, repoCloses, nodeVars, svcVars,
                   chanVars, mergeVars, inputVars, extVars, ctxVars, recvLog>>

\* lines 119-133: initialize the repository when --init is given and no
\* repository exists at ConfigRoot; initWithDefaults writes the default
\* repository or fails
InitIfAbsent ==
    /\ pc = "init"
    /\ IF flagInit /\ ~repoExists
       THEN \E ok \in BOOLEAN :
               /\ initCalls' = initCalls + 1
               /\ IF ok
                  THEN /\ repoExists' = TRUE
                       /\ repoConf' = "defaults"
                       /\ pc' = "open"
                       /\ UNCHANGED resVars
                  ELSE UNCHANGED <<repoExists, repoConf>> /\ Fail(Err("init", 0))
       ELSE pc' = "open" /\ UNCHANGED <<repoExists, repoConf, initCalls, resVars>>
    /\ UNCHANGED <<lockOwner, opens, releases, repoCloses, nodeVars, svcVars,
                   chanVars, mergeVars, inputVars, extVars, ctxVars, recvLog>>

\* fsrepo.Open can succeed only on an initialized repository whose lock is free
CanOpen == repoExists /\ lockOwner = "free"

\* OpenRepo with the return of line 140 missing
OpenRepo_NoReturn ==
    /\ pc = "open"
    /\ \E ok \in BOOLEAN :
          IF ok /\ CanOpen
          THEN /\ lockOwner' = "bootstrap"
               /\ opens' = opens + 1
               /\ pc' = "getconfig"
               /\ UNCHANGED resVars
          ELSE /\ lastErr' = Err("open", 0)
               /\ SetError(Err("open", 0))
               /\ pc' = "getconfig"
               /\ UNCHANGED <<lockOwner, opens>>
    /\ UNCHANGED <<repoExists, repoConf, initCalls, releases, repoCloses, nodeVars,
                   svcVars, chanVars, mergeVars, inputVars, extVars, ctxVars, recvLog>>

\* lines 135-141: acquire the repository lock
OpenRepo ==
    /\ pc = "open"
    /\ \E ok \in BOOLEAN :
          IF ok /\ CanOpen
          THEN /\ lockOwner' = "bootstrap"
               /\ opens' = opens + 1
               /\ pc' = "getconfig"
               /\ UNCHANGED resVars
          ELSE /\ Fail(Err("open", 0))
               /\ UNCHANGED <<lockOwner, opens>>
    /\ UNCHANGED <<repoExists, repoConf, initCalls, releases, repoCloses, nodeVars,
                   svcVars, chanVars, mergeVars, inputVars, extVars, ctxVars, recvLog>>

\* GetConfig with the return of line 146 missing
GetConfig_NoReturn ==
    /\ pc = "getconfig"
    /\ \E ok \in BOOLEAN :
          IF ok
          THEN pc' = "routing" /\ UNCHANGED resVars
          ELSE /\ lastErr' = Err("config", 0)
               /\ SetError(Err("config", 0))
               /\ pc' = "routing"
    /\ UNCHANGED <<repoVars, nodeVars, svcVars, chanVars, mergeVars, inputVars, extVars,
                   ctxVars, recvLog>>

\* lines 143-147: read the configuration
GetConfig ==
    /\ pc = "getconfig"
    /\ \E ok \in BOOLEAN :
          IF ok
          THEN pc' = "routing" /\ UNCHANGED resVars
          ELSE Fail(Err("config", 0))
    /\ UNCHANGED <<repoVars, nodeVars, svcVars, chanVars, mergeVars, inputVars, extVars,
                   ctxVars, recvLog>>

\* lines 149-157: assemble the builder, read --routing
RoutingOption ==
    /\ pc = "routing"
    /\ \E ok \in BOOLEAN :
          IF ok
          THEN /\ pc' = IF routingOption = routingOptionSupernodeKwd
                        THEN "supernode" ELSE "build"
               /\ UNCHANGED resVars
          ELSE Fail(Err("option", 0))
    /\ UNCHANGED <<repoVars, nodeVars, svcVars, chanVars, mergeVars, inputVars, extVars,
                   ctxVars, recvLog>>

\* repo.Close(): the bootstrap routine releases the handle it owns
RepoClose ==
    /\ repoCloses' = repoCloses + 1
    /\ releases' = IF lockOwner = "bootstrap" THEN releases + 1 ELSE releases
    /\ lockOwner' = IF lockOwner = "bootstrap" THEN "free" ELSE lockOwner

\* SupernodeRouting with the malformed addresses skipped
SupernodeRouting_SkipMalformed ==
    /\ pc = "supernode"
    /\ \E list \in SeqUpTo(ServerAddrs, MaxPeers) :
          /\ servers' = list
          /\ routing' = SupernodeClient(PeerInfos(
                            SelectSeq(list, LAMBDA a : ~a.malformed)))
    /\ pc' = "build"
    /\ UNCHANGED <<resVars, lockOwner, releases, repoCloses>>
    /\ UNCHANGED <<repoExists, repoConf, initCalls, opens, nodeVars, svcVars, chanVars,
                   mergeVars, inputVars, launchVars, policyVars, ctxVars,
                   recvLog>>

\* lines 158-173: the supernode peers; a malformed address aborts and closes
\* the repository
SupernodeRouting ==
    /\ pc = "supernode"
    /\ \E list \in SeqUpTo(ServerAddrs, MaxPeers) :
          /\ servers' = list
          /\ IF ~ServerIPFSAddrs(list).err
             THEN /\ routing' =
                       SupernodeClient(PeerInfos(ServerIPFSAddrs(list).addrs))
                  /\ pc' = "build"
                  /\ UNCHANGED <<resVars, lockOwner, releases, repoCloses>>
             ELSE /\ Fail(Err("peeraddr", 0))
                  /\ RepoClose
                  /\ UNCHANGED routing
    /\ UNCHANGED <<repoExists, repoConf, initCalls, opens, nodeVars, svcVars, chanVars,
                   mergeVars, inputVars, launchVars, policyVars, ctxVars,
                   recvLog>>

\* nb.Build: on success the node owns the repository handle, on failure the
\* ownership has not been transferred
BuildOwner(ok, owner) == IF ok THEN "node" ELSE owner

\* lines 175-196: build the node, register the deferred teardown
Build ==
    /\ pc = "build"
    /\ buildAttempts' = buildAttempts + 1
    /\ \E ok \in BOOLEAN :
          /\ lockOwner' = BuildOwner(ok, lockOwner)
          /\ IF ok
             THEN /\ nodeBuilt' = TRUE
                  /\ pc' = "api"
                  /\ UNCHANGED resVars
             ELSE /\ UNCHANGED nodeBuilt
                  /\ Fail(Err("build", 0))
    /\ UNCHANGED <<repoExists, repoConf, initCalls, opens, releases, repoCloses,
                   nodeCloses, svcVars, chanVars, mergeVars, inputVars, extVars,
                   ctxVars, recvLog>>

\* ------------------------------------------- daemonFunc: service launches
\* the steps at which mountHTTPapi can return an error (lines 241-262; the
\* ConstructNode of line 194 never fails), and "ok"
ApiOutcomes == {"config", "parse", "listen", "option", "ok"}
\* manet.Listen (line 251) has succeeded before the option is read
ApiBinds(o) == o \in {"option", "ok"}

\* the steps at which mountHTTPgw can return an error (lines 308-329), and "ok"
GwOutcomes == {"config", "parse", "option", "listen", "ok"}
\* manet.Listen (line 326) is the last step that can fail
GwBinds(o) == o = "ok"

\* Launch with the return after res.SetError missing (lines 202, 212)
Launch_NoReturn(i, o, binds, next) ==
    /\ bound' = [bound EXCEPT ![i] = binds]
    /\ listens' = [listens EXCEPT ![i] = IF binds THEN @ + 1 ELSE @]
    /\ pc' = next
    /\ IF o = "ok"
       THEN /\ errc' = [errc EXCEPT ![i] = "chan"]
            /\ serve' = [serve EXCEPT ![i] = "serving"]
            /\ starts' = [starts EXCEPT ![i] = @ + 1]
            /\ UNCHANGED resVars
       ELSE /\ lastErr' = Err(o, i)
            /\ SetError(Err(o, i))
            /\ UNCHANGED <<errc, serve, starts>>

\* Launch returning the error signal together with the error
Launch_SignalWithError(i, o, binds, next) ==
    /\ bound' = [bound EXCEPT ![i] = binds]
    /\ listens' = [listens EXCEPT ![i] = IF binds THEN @ + 1 ELSE @]
    /\ errc' = [errc EXCEPT ![i] = "chan"]
    /\ IF o = "ok"
       THEN /\ serve' = [serve EXCEPT ![i] = "serving"]
            /\ starts' = [starts EXCEPT ![i] = @ + 1]
            /\ pc' = next
            /\ UNCHANGED resVars
       ELSE /\ Fail(Err(o, i))
            /\ UNCHANGED <<serve, starts>>

\* a Service Launcher with outcome o: the listener is bound when binds; on
\* "ok" errc := make(chan error) and go func() { errc <- Serve(...) }()
Launch(i, o, binds, next) ==
    /\ bound' = [bound EXCEPT ![i] = binds]
    /\ listens' = [listens EXCEPT ![i] = IF binds THEN @ + 1 ELSE @]
    /\ IF o = "ok"
       THEN /\ errc' = [errc EXCEPT ![i] = "chan"]
            /\ serve' = [serve EXCEPT ![i] = "serving"]
            /\ starts' = [starts EXCEPT ![i] = @ + 1]
            /\ pc' = next
            /\ UNCHANGED resVars
       ELSE /\ Fail(Err(o, i))
            /\ UNCHANGED <<errc, serve, starts>>

\* MountHTTPapi going on to the gateway whatever mountHTTPapi returned
MountHTTPapi_GatewayAnyway ==
    /\ pc = "api"
    /\ \E o \in ApiOutcomes :
          /\ bound' = [bound EXCEPT ![API] = ApiBinds(o)]
          /\ listens' = [listens EXCEPT ![API] = IF ApiBinds(o) THEN @ + 1 ELSE @]
          /\ pc' = "gw"
          /\ IF o = "ok"
             THEN /\ errc' = [errc EXCEPT ![API] = "chan"]
                  /\ serve' = [serve EXCEPT ![API] = "serving"]
                  /\ starts' = [starts EXCEPT ![API] = @ + 1]
             ELSE UNCHANGED <<errc, serve, starts>>
          /\ UNCHANGED resVars
    /\ UNCHANGED <<repoVars, nodeVars, mountAttempts, mounted, sendq,
                   willClose, closed, mergeVars, inputVars, routeVars, policyVars,
                   ctxVars, recvLog>>

\* lines 198-203 and 240-304: construct the api endpoint - every time
MountHTTPapi ==
    /\ pc = "api"
    /\ \E o \in ApiOutcomes : Launch(API, o, ApiBinds(o), "gw")
    /\ UNCHANGED <<repoVars, nodeVars, mountAttempts, mounted, sendq,
                   willClose, closed, mergeVars, inputVars, routeVars, policyVars,
                   ctxVars, recvLog>>

\* MountHTTPgw without the test of line 207
MountHTTPgw_Always ==
    /\ pc = "gw"
    /\ \E o \in GwOutcomes : Launch(GW, o, GwBinds(o), "mountopt")
    /\ UNCHANGED <<repoVars, nodeVars, mountAttempts, mounted, sendq,
                   willClose, closed, mergeVars, inputVars, routeVars, policyVars,
                   ctxVars, recvLog>>

\* lines 205-214 and 307-359: construct the http gateway - if it is set in
\* the config
MountHTTPgw ==
    /\ pc = "gw"
    /\ IF cfgGateway
       THEN \E o \in GwOutcomes : Launch(GW, o, GwBinds(o), "mountopt")
       ELSE /\ pc' = "mountopt"
            /\ UNCHANGED <<resVars, bound, serve, errc, launchVars>>
    /\ UNCHANGED <<repoVars, nodeVars, mountAttempts, mounted, sendq,
                   willClose, closed, mergeVars, inputVars, routeVars, policyVars,
                   ctxVars, recvLog>>

\* lines 216-221: read --mount
MountOption ==
    /\ pc = "mountopt"
    /\ \E ok \in BOOLEAN :
          IF ok
          THEN pc' = (IF flagMount THEN "mount" ELSE "merge") /\ UNCHANGED resVars
          ELSE Fail(Err("option", 0))
    /\ UNCHANGED <<repoVars, nodeVars, svcVars, chanVars, mergeVars, inputVars, extVars,
                   ctxVars, recvLog>>

\* the steps at which mountFuse can return an error (lines 363-392), and "ok"
MountOutcomes == {"config", "option", "mount", "ok"}

\* MountFuse with the error of mountFuse dropped at line 223
MountFuse_IgnoreError ==
    /\ pc = "mount"
    /\ mountAttempts' = mountAttempts + 1
    /\ \E o \in MountOutcomes :
          /\ mounted' = (o = "ok")
          /\ pc' = "merge"
          /\ UNCHANGED resVars
    /\ UNCHANGED <<repoVars, nodeVars, bound, serve, chanVars, mergeVars,
                   inputVars, extVars, ctxVars, recvLog>>

\* lines 222-227 and 362-396: construct the fuse mountpoints, synchronously
MountFuse ==
    /\ pc = "mount"
    /\ mountAttempts' = mountAttempts + 1
    /\ \E o \in MountOutcomes :
          IF o = "ok"
          THEN mounted' = TRUE /\ pc' = "merge" /\ UNCHANGED resVars
          ELSE UNCHANGED mounted /\ Fail(Err(o, 0))
    /\ UNCHANGED <<repoVars, nodeVars, bound, serve, chanVars, mergeVars,
                   inputVars, extVars, ctxVars, recvLog>>

\* ------------------------------------------------------------------ merge
\* wg.Add counting the non-nil channels only
WgAdd_NonNil(c) == Cardinality({i \in DOMAIN c : c[i] # "nil"})

\* wg.Add(len(cs)), line 412
WgAdd(c) == Len(c)

\* lines 231 and 400-426: merge(apiErrc, gwErrc) makes out, starts one output
\* goroutine per non-nil channel and the goroutine that closes out
Merge ==
    /\ pc = "merge"
    /\ merged' = TRUE
    /\ wg' = wg + WgAdd(cs)
    /\ fwd' = [i \in Signals |-> IF cs[i] # "nil" THEN "recv" ELSE "none"]
    /\ closer' = "wait"
    /\ pc' = "loop"
    /\ UNCHANGED <<repoVars, nodeVars, resVars, svcVars, chanVars, held,
                   outClosed, outCloses, inputVars, extVars, ctxVars, recvLog>>

\* lines 407: the output goroutine of cs[i] receives a value from cs[i]; the
\* channel is unbuffered, so this is the writer's send as well
OutputRecv(i) ==
    /\ fwd[i] = "recv"
    /\ ~closed[i]
    /\ sendq[i] # <<>>
    /\ held' = [held EXCEPT ![i] = Head(sendq[i])]
    /\ sendq' = [sendq EXCEPT ![i] = Tail(sendq[i])]
    /\ fwd' = [fwd EXCEPT ![i] = "send"]
    /\ serve' = [serve EXCEPT ![i] = IF @ = "sending" THEN "exited" ELSE @]
    /\ UNCHANGED <<pc, repoVars, nodeVars, resVars, bound, mountAttempts,
                   mounted, errc, willClose, closed, merged, wg, closer,
                   outClosed, outCloses, inputVars, extVars, ctxVars, recvLog>>

\* lines 407 and 410: cs[i] is closed, the range loop ends, wg.Done()
OutputDone(i) ==
    /\ fwd[i] = "recv"
    /\ closed[i]
    /\ fwd' = [fwd EXCEPT ![i] = "done"]
    /\ wg' = wg - 1
    /\ UNCHANGED <<pc, repoVars, nodeVars, resVars, svcVars, chanVars, merged,
                   held, closer, outClosed, outCloses, inputVars, extVars, ctxVars,
                   recvLog>>

\* CloseOut without wg.Wait(): out is closed as soon as the goroutine runs
CloseOut_NoWait ==
    /\ closer = "wait"
    /\ closer' = "done"
    /\ outClosed' = TRUE
    /\ outCloses' = outCloses + 1
    /\ UNCHANGED <<pc, repoVars, nodeVars, resVars, svcVars, chanVars, merged,
                   wg, fwd, held, inputVars, extVars, ctxVars, recvLog>>

\* lines 421-424: wg.Wait() returns when the counter is zero, then close(out)
CloseOut ==
    /\ closer = "wait"
    /\ wg = 0
    /\ closer' = "done"
    /\ outClosed' = TRUE
    /\ outCloses' = outCloses + 1
    /\ UNCHANGED <<pc, repoVars, nodeVars, resVars, svcVars, chanVars, merged,
                   wg, fwd, held, inputVars, extVars, ctxVars, recvLog>>

\* ------------------------------------------ daemonFunc: supervising loop
\* the loop body with its test dropped: every received value is fatal
LoopBody_FailOnNil(e) == Fail(e)

\* the loop body without its test: a non-nil error is ignored
LoopBody_IgnoreError(e) == UNCHANGED <<pc, resVars>>

\* lines 231-236: the body of the loop for a received err
LoopBody(e) ==
    IF e # NoErr
    THEN Fail(e)
    ELSE UNCHANGED <<pc, resVars>>

\* Deliver on an out with room for a value: the send of the output goroutine
\* completes whether the loop receives or not
Deliver_Buffered(i) ==
    /\ fwd[i] = "send"
    /\ ~outClosed
    /\ fwd' = [fwd EXCEPT ![i] = "recv"]
    /\ IF pc = "loop"
       THEN recvLog' = Append(recvLog, held[i]) /\ LoopBody(held[i])
       ELSE UNCHANGED <<recvLog, pc, resVars>>
    /\ UNCHANGED <<repoVars, nodeVars, svcVars, chanVars, merged, wg, held,
                   closer, outClosed, outCloses, inputVars, extVars, ctxVars>>

\* lines 408 and 231-236: the output goroutine of cs[i] sends its value on
\* out (unbuffered), the supervising loop receives it and runs its body
Deliver(i) ==
    /\ pc = "loop"
    /\ fwd[i] = "send"
    /\ ~outClosed
    /\ recvLog' = Append(recvLog, held[i])
    /\ fwd' = [fwd EXCEPT ![i] = "recv"]
    /\ LoopBody(held[i])
    /\ UNCHANGED <<repoVars, nodeVars, svcVars, chanVars, merged, wg, held,
                   closer, outClosed, outCloses, inputVars, extVars, ctxVars>>

\* lines 231 and 237: out is closed, the range loop ends, daemonFunc returns
LoopExit ==
    /\ pc = "loop"
    /\ outClosed
    /\ Return
    /\ UNCHANGED <<repoVars, nodeVars, resVars, svcVars, chanVars, mergeVars,
                   inputVars, extVars, ctxVars, recvLog>>

\* node.Close(): the node releases the repository handle it owns
NodeCloseOwner(owner) == IF owner = "node" THEN "free" ELSE owner

\* lines 182-192: the deferred function closes the node and logs a graceful
\* shutdown when the context is done
Deferred ==
    /\ pc = "defer"
    /\ nodeCloses' = nodeCloses + 1
    /\ lockOwner' = NodeCloseOwner(lockOwner)
    /\ releases' = IF lockOwner = "node" THEN releases + 1 ELSE releases
    /\ shutdownLog' = ctxDone
    /\ pc' = "done"
    /\ UNCHANGED <<repoExists, repoConf, initCalls, opens, repoCloses, buildAttempts,
                   nodeBuilt, resVars, svcVars, chanVars, mergeVars, inputVars, extVars,
                   ctxDone, listener, recvLog>>

\* ------------------------------------------------- goroutines, environment
\* lines 301 and 356: corehttp.Serve of service i returns v; the goroutine
\* then blocks on errc <- v
ServeReturn(i) ==
    /\ serve[i] = "serving"
    /\ \E v \in {NoErr, ServeErr(i)} :
          sendq' = [sendq EXCEPT ![i] = <<v>>]
    /\ serve' = [serve EXCEPT ![i] = "sending"]
    /\ UNCHANGED <<pc, repoVars, nodeVars, resVars, bound, mountAttempts,
                   mounted, errc, willClose, closed, mergeVars, inputVars, extVars,
                   ctxVars, recvLog>>

\* the writer of input signal i of merge closes it after its last value
InputClose(i) ==
    /\ errc[i] = "chan"
    /\ willClose[i]
    /\ sendq[i] = <<>>
    /\ ~closed[i]
    /\ closed' = [closed EXCEPT ![i] = TRUE]
    /\ UNCHANGED <<pc, repoVars, nodeVars, resVars, svcVars, errc, sendq,
                   willClose, mergeVars, inputVars, extVars, ctxVars, recvLog>>

\* the operator interrupts: ctx.Context is cancelled
Cancel ==
    /\ ~ctxDone
    /\ ctxDone' = TRUE
    /\ UNCHANGED <<pc, repoVars, nodeVars, resVars, svcVars, chanVars,
                   mergeVars, inputVars, extVars, listener, shutdownLog, recvLog>>

\* InterruptLogger closing the listeners of the services as well
InterruptLogger_ClosesListeners ==
    /\ listener = "waiting"
    /\ ctxDone
    /\ listener' = "logged"
    /\ bound' = [i \in DOMAIN bound |-> FALSE]
    /\ UNCHANGED <<pc, repoVars, nodeVars, resVars, serve, mountAttempts,
                   mounted, chanVars, mergeVars, inputVars, extVars, ctxDone,
                   shutdownLog, recvLog>>

\* lines 105-110: the goroutine that prints "Received interrupt signal"
InterruptLogger ==
    /\ listener = "waiting"
    /\ ctxDone
    /\ listener' = "logged"
    /\ UNCHANGED <<pc, repoVars, nodeVars, resVars, svcVars, chanVars,
                   mergeVars, inputVars, extVars, ctxDone, shutdownLog, recvLog>>

\* ------------------------------------------------------------------ Next
Next ==
    \/ Start
    \/ InitIfAbsent
    \/ OpenRepo
    \/ GetConfig
    \/ RoutingOption
    \/ SupernodeRouting
    \/ Build
    \/ MountHTTPapi
    \/ MountHTTPgw
    \/ MountOption
    \/ MountFuse
    \/ Merge
    \/ \E i \in Signals : OutputRecv(i)
    \/ \E i \in Signals : OutputDone(i)
    \/ CloseOut
    \/ \E i \in Signals : Deliver(i)
    \/ LoopExit
    \/ Deferred
    \/ \E i \in Signals : ServeReturn(i)
    \/ \E i \in Signals : InputClose(i)
    \/ Cancel
    \/ InterruptLogger

Spec == Init /\ [][Next]_vars

\* the supervising routine: daemonFunc itself
MainRoutine ==
    \/ Start \/ InitIfAbsent \/ OpenRepo \/ GetConfig \/ RoutingOption
    \/ SupernodeRouting \/ Build \/ MountHTTPapi \/ MountHTTPgw
    \/ MountOption \/ MountFuse \/ Merge \/ LoopExit \/ Deferred

\* the output goroutine of cs[i]
Output(i) ==
    /\ i \in Signals
    /\ OutputRecv(i) \/ OutputDone(i) \/ Deliver(i)

\* the Go scheduler runs every goroutine that can take a step (a step that
\* is enabled stays enabled until it is taken or can never be taken again);
\* when Serve returns and when the operator interrupts is up to the
\* environment
Fairness ==
    /\ WF_vars(MainRoutine)
    /\ WF_vars(CloseOut)
    /\ WF_vars(InterruptLogger)
    /\ \A i \in 1..MaxSignals :
          /\ WF_vars(Output(i))
          /\ WF_vars(i \in Signals /\ InputClose(i))

FairSpec == Spec /\ Fairness

\* ------------------------------------ the launchers' handling of options
\* What the Service Launchers compute from the startup flags and the config
\* does not influence the control flow above, so it is explored on its own:
\* OptionSpec starts at the launch of the services with arbitrary values of
\* --unrestricted-api, --writable and cfg.Gateway.Writable.

\* the characters request paths are made of
Chars == {"a", "b", "c"}
\* the request paths of up to MaxPathLen characters
Paths == SeqUpTo(Chars, MaxPathLen)

\* corehttp.WebUIPaths: the fixed list of trusted UI paths
WebUIPaths == << <<"a", "b">>, <<"c">> >>

\* strings.HasPrefix(s, prefix)
HasPrefix(s, prefix) ==
    Len(s) >= Len(prefix) /\ SubSeq(s, 1, Len(prefix)) = prefix

\* the loop of lines 272-277 with the arguments of HasPrefix exchanged
RECURSIVE InWebUIPath_PathIsPrefix(_, _)
InWebUIPath_PathIsPrefix(s, paths) ==
    IF paths = <<>> THEN FALSE
    ELSE IF HasPrefix(Head(paths), s) THEN TRUE
    ELSE InWebUIPath_PathIsPrefix(s, Tail(paths))

\* lines 272-277: for _, webuipath := range paths { if HasPrefix ... }
RECURSIVE InWebUIPath(_, _)
InWebUIPath(s, paths) ==
    IF paths = <<>> THEN FALSE
    ELSE IF HasPrefix(s, Head(paths)) THEN TRUE
    ELSE InWebUIPath(s, Tail(paths))

\* lines 267-278: the Decider of the API's BlockList
Decider(s) == IF unrestricted THEN TRUE ELSE InWebUIPath(s, WebUIPaths)

\* lines 318-324 without the test of writableOptionFound
GatewayWritable_FlagOnly(writable, writableOptionFound) == writable

\* lines 318-324: writable as handed to corehttp.GatewayOption
GatewayWritable(writable, writableOptionFound) ==
    IF ~writableOptionFound THEN cfgWritable ELSE writable

\* the services are about to be launched; the flags and the config are
\* arbitrary (Bool() yields false for an option that was not given)
OptionInit ==
    /\ CommonInit
    /\ entry = "launchers"
    /\ pc = "api"
    /\ unrestricted \in BOOLEAN
    /\ writableFound \in BOOLEAN
    /\ writableFlag \in {w \in BOOLEAN : w => writableFound}
    /\ cfgWritable \in BOOLEAN
    /\ flagInit = FALSE
    /\ flagMount = FALSE
    /\ routingOption = ""
    /\ cfgGateway = TRUE
    /\ repoConf = "defaults"
    /\ repoExists = TRUE
    /\ lockOwner = "node"
    /\ opens = 1
    /\ buildAttempts = 1
    /\ nodeBuilt = TRUE
    /\ bound = NoService
    /\ serve = [i \in {API, GW} |-> "idle"]
    /\ listens = [i \in {API, GW} |-> 0]
    /\ starts = [i \in {API, GW} |-> 0]
    /\ errc = [i \in {API, GW} |-> "nil"]
    /\ sendq = [i \in {API, GW} |-> <<>>]
    /\ willClose = NoService
    /\ closed = NoService
    /\ args = <<>>
    /\ fwd = [i \in {API, GW} |-> "none"]
    /\ held = [i \in {API, GW} |-> NoErr]
    /\ listener = "waiting"

optionVars == <<unrestricted, writableFound, writableFlag, cfgWritable>>
daemonVars == <<pc, repoVars, nodeVars, resVars, svcVars, chanVars, mergeVars,
                inputVars, routeVars, launchVars, ctxVars, recvLog>>

\* lines 264-280: the GatewayConfig of the API
ApiGatewayConfig ==
    /\ apiWritable = "unset"
    /\ apiWritable' = "writable"
    /\ UNCHANGED <<daemonVars, optionVars, reqPath, decision, gwWritable>>

\* the API's gateway asks its Decider about a request path
Decide ==
    /\ apiWritable # "unset"
    /\ \E s \in Paths :
          /\ reqPath' = s
          /\ decision' = IF Decider(s) THEN "allowed" ELSE "denied"
    /\ UNCHANGED <<daemonVars, optionVars, apiWritable, gwWritable>>

\* lines 318-324 and 339-343: the gateway's writable option
GatewayOption ==
    /\ gwWritable = "unset"
    /\ gwWritable' = IF GatewayWritable(writableFlag, writableFound)
                     THEN "writable" ELSE "readonly"
    /\ UNCHANGED <<daemonVars, optionVars, apiWritable, reqPath, decision>>

OptionNext == ApiGatewayConfig \/ Decide \/ GatewayOption

OptionSpec == OptionInit /\ [][OptionNext]_vars

\* ================================================================ claims
\* merge was entered directly with input signals of which signal i alone
\* emits, exactly one non-nil error, and every other one is a channel that
\* closes without emitting
OnlyErrorFrom(i) ==
    /\ entry = "merge"
    /\ i \in DOMAIN args
    /\ ~args[i].isNil /\ args[i].emits = <<TRUE>>
    /\ \A j \in DOMAIN args \ {i} :
          ~args[j].isNil /\ args[j].emits = <<>> /\ args[j].closes

\* C1: when exactly one input signal of merge emits a non-nil error and all
\* the others close without emitting, the supervising loop eventually has
\* received exactly that error, has reported it and daemonFunc has returned,
\* whatever the position of that signal in the argument list and whatever
\* the interleaving.
C1_SingleErrorObserved ==
    (\E i \in 1..MaxSignals : OnlyErrorFrom(i)) ~>
        (\E i \in 1..MaxSignals :
            /\ OnlyErrorFrom(i)
            /\ pc = "done"
            /\ recvLog = <<ServeErr(i)>>
            /\ resErr = ServeErr(i)
            /\ setErrors = 1)

\* the error of the second of two signals was observed and daemonFunc returned
C1_Witness ==
    /\ OnlyErrorFrom(2)
    /\ Len(args) = 2
    /\ closed[1]
    /\ pc = "done"
    /\ recvLog = <<ServeErr(2)>>
    /\ resErr = ServeErr(2)

\* C2: nil input signals do not count towards what merge waits for: once
\* merge has been called on an argument list with a nil input and every
\* non-nil input has closed, the merged output is eventually closed (at once
\* when all inputs are nil).
C2_NilInputsNotAwaited ==
    (/\ merged
     /\ \E i \in Signals : cs[i] = "nil"
     /\ \A i \in Signals : cs[i] = "nil" \/ closed[i]) ~> outClosed

\* every launched service has returned from corehttp.Serve with a nil error
AllServedNil ==
    /\ entry = "daemonFunc"
    /\ \A i \in Signals :
          cs[i] # "nil" =>
              /\ serve[i] \in {"sending", "exited"}
              /\ sendq[i] # <<ServeErr(i)>>
              /\ held[i] = NoErr

\* C3: clean shutdown: once the supervising loop runs and every launched
\* service has terminated its serve call without error, the merged signal
\* eventually closes, the loop exits and daemonFunc returns, after node
\* teardown, without an error set.
C3_CleanShutdown ==
    (merged /\ AllServedNil) ~>
        (pc = "done" /\ outClosed /\ setErrors = 0 /\ nodeCloses = 1)

\* C4: if nb.Build fails after fsrepo.Open acquired the repository lock,
\* then once daemonFunc has returned the handle is released: a subsequent
\* fsrepo.Open of the same path can succeed.
C4_LockReleasedAfterBuildFailure ==
    (entry = "daemonFunc" /\ pc = "done" /\ lastErr = Err("build", 0))
        => CanOpen

\* C5: whenever fsrepo.Open succeeded and daemonFunc has returned, the
\* handle was acquired once and released exactly once, either by the
\* explicit repo.Close of an abort before the node was built or by the
\* node's teardown after a successful build, never by both and never by
\* neither.
C5_ReleasedExactlyOnce ==
    (entry = "daemonFunc" /\ pc = "done" /\ opens >= 1) =>
        /\ opens = 1
        /\ releases = 1
        /\ lockOwner = "free"
        /\ IF nodeBuilt
           THEN nodeCloses = 1 /\ repoCloses = 0
           ELSE nodeCloses = 0 /\ repoCloses = 1

\* service i has been launched: its listener is bound or its serving
\* goroutine has been started
Launched(i) == bound[i] \/ serve[i] # "idle"

\* C6: every call of nb.Build happens in a state where the repository lock
\* has been acquired by fsrepo.Open, and every listener bind, start of a
\* serving goroutine and mount attempt happens in a state where the lock was
\* acquired and the node has been built.
C6_LockThenBuildThenServices ==
    [][/\ buildAttempts' # buildAttempts =>
              opens = 1 /\ lockOwner = "bootstrap"
       /\ (\/ mountAttempts' # mountAttempts
           \/ \E i \in Signals : ~Launched(i) /\ Launched(i)') =>
              opens = 1 /\ buildAttempts = 1 /\ nodeBuilt /\ lockOwner = "node"
      ]_vars

\* the gateway is serving and the mount succeeded, after the node was built
C6_Witness ==
    /\ entry = "daemonFunc"
    /\ serve[GW] = "serving"
    /\ mounted
    /\ nodeBuilt
    /\ opens = 1

\* the positions of the non-nil errors in the sequence log
NonNilAt(log) == {k \in DOMAIN log : log[k] # NoErr}

\* C7: the first non-nil error the supervising loop receives is the last
\* value it receives: the loop has ended, that error is the one reported,
\* and daemonFunc returns through the node teardown; as long as only nil
\* values were received the loop goes on and no error is set by it.
C7_FirstErrorIsFatal ==
    IF NonNilAt(recvLog) # {}
    THEN /\ NonNilAt(recvLog) = {Len(recvLog)}
         /\ pc \in {"defer", "done"}
         /\ resErr = recvLog[Len(recvLog)]
         /\ setErrors = 1
         /\ pc = "done" => nodeCloses = 1
    ELSE merged => (setErrors = 0 /\ (pc = "loop" \/ outClosed))

\* the API service ended with nil, then the gateway's error ended the daemon
C7_Witness ==
    /\ entry = "daemonFunc"
    /\ recvLog = <<NoErr, ServeErr(GW)>>
    /\ resErr = ServeErr(GW)
    /\ pc = "done"

\* C8: once daemonFunc has returned after a successful nb.Build, node.Close
\* has been called exactly once; it is never called twice, and never in a
\* run without a built node or before the return.
C8_TeardownExactlyOnce ==
    /\ nodeCloses <= 1
    /\ nodeCloses = 1 => (nodeBuilt /\ pc = "done")
    /\ (pc = "done" /\ nodeBuilt) => nodeCloses = 1

\* the mount failed after both services were launched, the node was closed
C8_Witness ==
    /\ entry = "daemonFunc"
    /\ pc = "done"
    /\ lastErr = Err("mount", 0)
    /\ serve[GW] # "idle"
    /\ nodeCloses = 1

\* a bootstrap step (build, bind, serve, mount, merge) is started
StepStarted ==
    \/ buildAttempts' # buildAttempts
    \/ mountAttempts' # mountAttempts
    \/ merged' # merged
    \/ \E i \in Signals : ~Launched(i) /\ Launched(i)'

\* C9: res.SetError is called at most once; when daemonFunc has returned it
\* was called exactly once if a non-nil err ended the run, with that err,
\* and not at all otherwise; and after it was called no bootstrap step is
\* started.
C9_SingleReportedError ==
    /\ [](/\ setErrors <= 1
          /\ pc = "done" =>
                /\ setErrors = 1 <=> lastErr # NoErr
                /\ resErr = lastErr
                /\ setErrors = 0 => (outClosed /\ NonNilAt(recvLog) = {}))
    /\ [][setErrors >= 1 => ~StepStarted]_vars

\* the gateway failed to bind while the API service was already running
C9_Witness ==
    /\ entry = "daemonFunc"
    /\ pc = "done"
    /\ lastErr = Err("listen", GW)
    /\ setErrors = 1
    /\ serve[API] # "idle"

\* C10: after a failure to parse or bind the address of the API or of the
\* gateway the error is reported, daemonFunc is returning and merge is not
\* called nor anything received from it; after a failed API launch the
\* gateway is not bound and the mount is not attempted.
C10_BindErrorsFatalAtLaunch ==
    /\ (entry = "daemonFunc" /\ lastErr.kind \in {"parse", "listen"}) =>
          /\ resErr = lastErr
          /\ setErrors = 1
          /\ pc \in {"defer", "done"}
          /\ ~merged /\ closer = "none" /\ recvLog = <<>>
    /\ (entry = "daemonFunc" /\ lastErr.src = API /\ lastErr.kind # "serve") =>
          /\ ~Launched(GW)
          /\ mountAttempts = 0 /\ ~mounted
          /\ ~merged

\* the API address could not be bound and daemonFunc returned
C10_Witness ==
    /\ entry = "daemonFunc"
    /\ lastErr = Err("listen", API)
    /\ pc = "done"
    /\ nodeCloses = 1

\* C11: when the supernode server list read at line 159 contains a malformed
\* address, no peer set is installed on the builder, the error is reported
\* and daemonFunc has returned with no node built, nothing launched, and the
\* repository handle released by the explicit repo.Close.
C11_MalformedPeerAbortsSelection ==
    (entry = "daemonFunc" /\ HasMalformed(servers)) =>
        /\ routingOption = routingOptionSupernodeKwd
        /\ routing = DefaultRouting
        /\ lastErr = Err("peeraddr", 0)
        /\ resErr = lastErr
        /\ setErrors = 1
        /\ pc = "done"
        /\ buildAttempts = 0 /\ ~nodeBuilt
        /\ \A i \in Signals : ~Launched(i)
        /\ mountAttempts = 0 /\ ~merged
        /\ repoCloses = 1 /\ releases = 1 /\ lockOwner = "free"

\* a well-formed address followed by a malformed one aborted the selection
C11_Witness ==
    /\ entry = "daemonFunc"
    /\ Len(servers) = 2
    /\ ~servers[1].malformed
    /\ servers[2].malformed
    /\ pc = "done"
    /\ lastErr = Err("peeraddr", 0)

\* C12: when nb.Build is reached, the routing option "supernode" has set a
\* fixed peer set with one entry per configured address, in order, each
\* with the identity and exactly the transport address of its address;
\* every other option value has left the default routing, read no server
\* list and raised no routing error.
C12_RoutingSelection ==
    (entry = "daemonFunc" /\ (pc = "build" \/ buildAttempts >= 1)) =>
        /\ pc = "build" => setErrors = 0
        /\ IF routingOption = routingOptionSupernodeKwd
           THEN /\ routing.kind = "FixedPeerSet"
                /\ Len(routing.peers) = Len(servers)
                /\ \A k \in DOMAIN servers :
                      /\ routing.peers[k].ID = servers[k].id
                      /\ routing.peers[k].Addrs = <<servers[k].transport>>
           ELSE /\ routing = DefaultRouting
                /\ servers = <<>>
                /\ repoCloses = 0
                /\ lastErr # Err("peeraddr", 0)

\* the peers P and Q, in this order, were installed and the node was built
C12_Witness ==
    /\ entry = "daemonFunc"
    /\ routingOption = routingOptionSupernodeKwd
    /\ nodeBuilt
    /\ Len(routing.peers) = 2
    /\ routing.peers[1] = [ID |-> "P", Addrs |-> <<"/ip4/127.0.0.1/tcp/4001">>]
    /\ routing.peers[2] = [ID |-> "Q", Addrs |-> <<"/ip4/127.0.0.1/tcp/4002">>]

\* the signals passed to merge: the channels of its argument list (a nil
\* argument is no signal)
MergeSet == {i \in DOMAIN cs : cs[i] # "nil"}

IsPrefixOf(p, s) == \E t \in Paths \cup {<<>>} : s = p \o t

\* C14: for every request path s the API's decider allows s if
\* --unrestricted-api was set; otherwise it allows s exactly when one of the
\* trusted UI paths is a prefix of s, and denies every other path
C14_DeciderPolicy ==
    decision # "none" =>
        /\ decision \in {"allowed", "denied"}
        /\ unrestricted => decision = "allowed"
        /\ ~unrestricted =>
              (decision = "allowed" <=>
                  \E k \in DOMAIN WebUIPaths : IsPrefixOf(WebUIPaths[k], reqPath))

\* a restricted API has denied a path that is a proper prefix of a trusted
\* UI path
C14_Witness ==
    /\ ~unrestricted
    /\ decision = "denied"
    /\ reqPath = <<"a">>

\* C20: the gateway serves with the value of --writable whenever the flag
\* was given (true or false) and with cfg.Gateway.Writable otherwise; the
\* API's gateway is writable whatever the flag and the config say
C20_GatewayWritability ==
    /\ gwWritable # "unset" =>
          /\ gwWritable \in {"writable", "readonly"}
          /\ writableFound => (gwWritable = "writable" <=> writableFlag)
          /\ ~writableFound => (gwWritable = "writable" <=> cfgWritable)
    /\ apiWritable # "unset" => apiWritable = "writable"

\* --writable=false was given against a config that says writable: the
\* gateway is read-only and the API writable
C20_Witness ==
    /\ writableFound
    /\ ~writableFlag
    /\ cfgWritable
    /\ gwWritable = "readonly"
    /\ apiWritable = "writable"

\* C15: initWithDefaults is called only with --init and no repository at
\* ConfigRoot; the initialize-if-absent step, run against a repository that
\* exists already (one an earlier run initialized included), leaves what is
\* stored there as it was, calls nothing, reports no error and goes on to
\* open the repository
C15_InitIdempotent ==
    [][/\ initCalls' # initCalls => pc = "init" /\ flagInit /\ ~repoExists
       /\ (pc = "init" /\ pc' # "init" /\ repoExists) =>
             /\ repoExists' /\ repoConf' = repoConf
             /\ initCalls' = initCalls
             /\ setErrors' = setErrors /\ resErr' = resErr
             /\ pc' = "open"]_vars

\* a run with --init has passed the step on a repository an earlier
\* initialization had written
C15_Witness ==
    /\ entry = "daemonFunc"
    /\ flagInit
    /\ repoConf = "defaults"
    /\ initCalls = 0
    /\ pc = "open"

\* the supervising routine waits in the range loop: out is open and no
\* output goroutine offers a value
LoopBlocked ==
    /\ pc = "loop"
    /\ ~outClosed
    /\ \A i \in DOMAIN fwd : fwd[i] # "send"

\* C16: the step that cancels the context and the step of the goroutine
\* that logs it change nothing else: no listener, no service, no error
\* signal, not the merged signal, not the supervising routine, not the node;
\* the loop is left only with a non-nil error received or with out closed,
\* node.Close runs only in the deferred function, and while the loop waits
\* after a cancellation the supervising routine has no step
C16_CancellationOnlyLogged ==
    /\ [][/\ ctxDone' # ctxDone =>
                UNCHANGED <<pc, repoVars, nodeVars, resVars, svcVars, chanVars,
                            mergeVars, listener, shutdownLog, recvLog>>
          /\ (listener = "waiting" /\ listener' = "logged") =>
                /\ ctxDone
                /\ UNCHANGED <<pc, repoVars, nodeVars, resVars, svcVars,
                               chanVars, mergeVars, ctxDone, shutdownLog,
                               recvLog>>
          /\ (pc = "loop" /\ pc' # "loop") =>
                \/ outClosed
                \/ /\ Len(recvLog') = Len(recvLog) + 1
                   /\ recvLog'[Len(recvLog')] # NoErr
          /\ nodeCloses' # nodeCloses => pc = "defer"]_vars
    /\ []((ctxDone /\ LoopBlocked) =>
             ~ENABLED (MainRoutine \/ \E i \in Signals : Deliver(i)))

\* the context was cancelled and the interrupt logged while the API serves:
\* the listener is still bound, nothing was delivered, the loop waits and
\* the node is open
C16_Witness ==
    /\ entry = "daemonFunc"
    /\ ctxDone
    /\ listener = "logged"
    /\ pc = "loop"
    /\ serve[API] = "serving"
    /\ bound[API]
    /\ recvLog = <<>>
    /\ nodeCloses = 0

\* the values that travel on the input signals and on out
SignalValues ==
    {held[i] : i \in {j \in DOMAIN fwd : fwd[j] = "send"}}
    \cup {recvLog[k] : k \in DOMAIN recvLog}
    \cup UNION {{sendq[i][k] : k \in DOMAIN sendq[i]} : i \in DOMAIN sendq}

\* C17: mountFuse is attempted only with --mount, once, on the supervising
\* routine, after the API (and the gateway, if configured) was launched and
\* before merge is called, and it has succeeded or failed when that step is
\* over; a failure is reported as the error of the run, the loop is never
\* entered and the node is closed; merge is called on the API's and the
\* gateway's signal only, and no value on any signal comes from the mount
C17_MountSynchronousAndFatal ==
    /\ [][mountAttempts' # mountAttempts =>
             /\ flagMount /\ pc = "mount" /\ mountAttempts = 0
             /\ starts[API] = 1
             /\ starts[GW] = (IF cfgGateway THEN 1 ELSE 0)
             /\ ~merged /\ ~merged'
             /\ \/ mounted' /\ pc' = "merge" /\ setErrors' = setErrors
                \/ ~mounted' /\ pc' = "defer" /\ setErrors' = setErrors + 1]_vars
    /\ [](entry = "daemonFunc" =>
             /\ ~flagMount => mountAttempts = 0
             /\ merged => (flagMount <=> mounted)
             /\ (mountAttempts = 1 /\ ~mounted) =>
                   /\ setErrors = 1 /\ resErr # NoErr /\ resErr.src = 0
                   /\ ~merged /\ recvLog = <<>>
                   /\ pc \in {"defer", "done"}
                   /\ pc = "done" => nodeCloses = 1
             /\ DOMAIN cs = {API, GW}
             /\ \A e \in SignalValues : e = NoErr \/ e.src \in {API, GW})

\* the mount failed after both services were launched: the run has ended
\* with that error, the node is closed and merge was never called
C17_Witness ==
    /\ entry = "daemonFunc"
    /\ flagMount /\ cfgGateway
    /\ mountAttempts = 1 /\ ~mounted
    /\ starts[API] = 1 /\ starts[GW] = 1
    /\ pc = "done"
    /\ nodeCloses = 1
    /\ ~merged

\* the number of values the output goroutine of cs[i] has received from it
Taken(i) ==
    IF entry = "merge" THEN Len(args[i].emits) - Len(sendq[i])
    ELSE IF serve[i] = "exited" THEN 1 ELSE 0

\* 1 when the output goroutine of cs[i] holds a value it has not sent yet
Pending(i) == IF fwd[i] = "send" THEN 1 ELSE 0

\* f[1] + ... + f[n]
RECURSIVE SumTo(_, _)
SumTo(f, n) == IF n = 0 THEN 0 ELSE f[n] + SumTo(f, n - 1)

\* out has delivered v as often as it came out of cs[i], counting the one
\* the output goroutine may still hold
DeliveredOnce(i, v, n) ==
    Cardinality({k \in DOMAIN recvLog : recvLog[k] = v})
        + (IF fwd[i] = "send" /\ held[i] = v THEN 1 ELSE 0) = n

\* C18: out is never closed while a non-nil input is open, its output
\* goroutine has not finished or some output goroutine holds a value; what
\* the loop receives is, value by value, what an output goroutine held, so
\* that the values received on out and those still held are exactly the
\* values taken from the inputs; and while the loop is receiving, the
\* delivery of a held value is never blocked
C18_OutClosesLastDeliversOnce ==
    /\ [](outClosed =>
             /\ \A i \in MergeSet : closed[i] /\ fwd[i] = "done"
             /\ \A i \in DOMAIN fwd : fwd[i] # "send"
             /\ wg = 0)
    /\ [](/\ ~merged => recvLog = <<>>
          /\ Len(recvLog) + SumTo([i \in DOMAIN fwd |-> Pending(i)], Len(cs))
                = SumTo([i \in DOMAIN fwd |-> Taken(i)], Len(cs))
          /\ entry = "merge" =>
                \A i \in DOMAIN args :
                   DeliveredOnce(i, ServeErr(i),
                       Cardinality({k \in 1..Taken(i) : args[i].emits[k]})))
    /\ [][/\ recvLog' # recvLog =>
                \E i \in DOMAIN fwd :
                   /\ fwd[i] = "send" /\ fwd'[i] = "recv"
                   /\ recvLog' = Append(recvLog, held[i])
          /\ \A i \in DOMAIN fwd :
                (fwd[i] = "send" /\ fwd'[i] # "send") =>
                   recvLog' = Append(recvLog, held[i])]_vars
    /\ [](\A i \in DOMAIN fwd :
             (fwd[i] = "send" /\ pc = "loop") => ENABLED Deliver(i))

\* two inputs have closed after one of them emitted a value: it was
\* delivered and out is closed
C18_Witness ==
    /\ entry = "merge"
    /\ Len(args) = 2
    /\ outClosed
    /\ Len(recvLog) = 1
    /\ \A i \in DOMAIN args : closed[i]

\* the error signal of service i carries at most one value, the one its
\* serving goroutine sends when corehttp.Serve has returned
AtMostOneValue(i) ==
    /\ Len(sendq[i]) <= 1
    /\ sendq[i] # <<>> => serve[i] = "sending"
    /\ serve[i] \in {"idle", "serving"} => fwd[i] # "send"

\* C19: the error signal of each Service Launcher carries at most one value
\* over the whole run, emitted when the serve call returns, and is closed
\* once that value has been taken
C19_OneShotErrorSignal ==
    /\ [](entry = "daemonFunc" => \A i \in {API, GW} : AtMostOneValue(i))
    /\ (entry = "daemonFunc" /\ serve[API] = "exited")
          ~> (entry = "daemonFunc" /\ closed[API])

\* daemonFunc has left the supervising loop, or has returned before it,
\* with the serving goroutine of the API started
StoppedReceiving ==
    /\ entry = "daemonFunc"
    /\ pc \in {"defer", "done"}
    /\ starts[API] = 1

\* C21: once daemonFunc has stopped receiving with a service launched,
\* nothing more is received on out; a value an output goroutine holds stays
\* held, and without merge a value a serving goroutine sends stays unsent;
\* out is not closed; and daemonFunc still runs its deferred function and
\* returns
C21_LateValuesNeverDelivered ==
    /\ [][StoppedReceiving =>
             /\ StoppedReceiving'
             /\ recvLog' = recvLog
             /\ ~outClosed'
             /\ \A i \in {API, GW} :
                   /\ fwd[i] = "send" =>
                         fwd'[i] = "send" /\ held'[i] = held[i]
                   /\ (~merged /\ serve[i] = "sending") =>
                         serve'[i] = "sending" /\ sendq'[i] = sendq[i]]_vars
    /\ [](StoppedReceiving =>
             /\ ~outClosed
             /\ ~merged => recvLog = <<>>)
    /\ (entry = "daemonFunc" /\ pc = "defer") ~> (pc = "done")

\* the loop returned on the API's error; the gateway's serve call returned
\* later and its value is held by the output goroutine while daemonFunc has
\* returned
C21_Witness ==
    /\ StoppedReceiving
    /\ pc = "done"
    /\ merged
    /\ recvLog = <<ServeErr(API)>>
    /\ fwd[GW] = "send"
    /\ ~outClosed

\* mountHTTPgw was called and returned an error
GatewayLaunchFailed ==
    /\ entry = "daemonFunc"
    /\ cfgGateway
    /\ lastErr.src = GW
    /\ starts[GW] = 0

\* C22: the gateway listener is bound only in a state in which the API
\* listener is bound and the API's serving goroutine was started, so never
\* in a run whose API launch failed; a failed gateway launch changes nothing
\* about the API, whose listener stays bound and whose serving goroutine
\* stays alive while daemonFunc returns through the deferred node.Close
C22_LaunchesSequential ==
    /\ [][(entry = "daemonFunc" /\ listens'[GW] # listens[GW]) =>
             /\ pc = "gw"
             /\ listens[API] = 1 /\ bound[API]
             /\ starts[API] = 1 /\ serve[API] # "idle"
             /\ UNCHANGED <<listens[API], bound[API], starts[API],
                            serve[API], errc[API]>>]_vars
    /\ [](entry = "daemonFunc" =>
             /\ listens[GW] >= 1 => listens[API] = 1 /\ starts[API] = 1
             /\ (starts[API] = 0 /\ pc \in {"defer", "done"}) =>
                   listens[GW] = 0 /\ ~bound[GW] /\ starts[GW] = 0
             /\ GatewayLaunchFailed =>
                   /\ bound[API] /\ starts[API] = 1
                   /\ serve[API] \in {"serving", "sending"}
                   /\ errc[API] = "chan"
                   /\ ~merged
                   /\ pc \in {"defer", "done"}
                   /\ pc = "done" => nodeCloses = 1)

\* the gateway failed to listen after the API was launched: daemonFunc has
\* returned and closed the node with the API still bound and serving
C22_Witness ==
    /\ GatewayLaunchFailed
    /\ lastErr = Err("listen", GW)
    /\ pc = "done"
    /\ nodeCloses = 1
    /\ bound[API]
    /\ serve[API] = "serving"

\* the step of daemonFunc that calls the Service Launcher of service i
LauncherStep(i) ==
    /\ entry = "daemonFunc"
    /\ \/ i = API /\ pc = "api" /\ pc' # "api"
       \/ i = GW /\ pc = "gw" /\ pc' # "gw" /\ cfgGateway

\* C23: a Service Launcher returns an error exactly when it returns a nil
\* error signal and has started no serving goroutine; when it returns no
\* error it has bound one listener, started one serving goroutine and
\* returned a non-nil error signal
C23_LauncherResult ==
    [][\A i \in {API, GW} :
          LauncherStep(i) =>
             /\ (lastErr' # NoErr /\ lastErr'.src = i) <=>
                   (errc'[i] = "nil" /\ starts'[i] = starts[i])
             /\ (lastErr' # NoErr) <=> (setErrors' = setErrors + 1)
             /\ lastErr' = NoErr =>
                   /\ listens'[i] = listens[i] + 1 /\ bound'[i]
                   /\ starts'[i] = starts[i] + 1 /\ serve'[i] = "serving"
                   /\ errc'[i] = "chan"
                   /\ setErrors' = setErrors]_vars

\* mountHTTPapi has returned an error after it had bound its listener: no
\* error signal, no serving goroutine
C23_Witness ==
    /\ entry = "daemonFunc"
    /\ lastErr = Err("option", API)
    /\ bound[API]
    /\ errc[API] = "nil"
    /\ starts[API] = 0
    /\ serve[API] = "idle"

\* the output goroutines that have called wg.Done()
Finished == {i \in DOMAIN fwd : fwd[i] = "done"}

\* C24: out is closed at most once, no output goroutine sends or is about
\* to send on out once it is closed, and the wait-group counter is never
\* negative: from the call of merge on it is the number of inputs, nil ones
\* included, minus the number of output goroutines that have finished
C24_MergeInternals ==
    /\ [](/\ outCloses <= 1
          /\ outClosed <=> outCloses = 1
          /\ wg >= 0
          /\ wg = IF merged THEN Len(cs) - Cardinality(Finished) ELSE 0
          /\ outClosed => \A i \in DOMAIN fwd : fwd[i] \in {"done", "none"})
    /\ [][/\ recvLog' # recvLog => ~outClosed /\ ~outClosed'
          /\ outClosed => outClosed' /\ fwd' = fwd /\ wg' = wg]_vars

\* merge was called on two channels that closed without a value: both
\* output goroutines have finished and out is closed, once
C24_Witness ==
    /\ entry = "merge"
    /\ Len(args) = 2
    /\ Finished = {1, 2}
    /\ wg = 0
    /\ outCloses = 1
    /\ recvLog = <<>>

====
